---- MODULE Spec2Model ----
(***************************************************************************)
(* Model of classes_snake.py: the Snake chain (snake_body, num_moves), its  *)
(* four moves, update_body_positions, move_combo and the plotting call     *)
(* move_combo makes after each move, and the module-level functions        *)
(* convert_moves_to_string, create_random_moves and main.                  *)
(*                                                                         *)
(* Python lists are 0-based, TLA+ sequences 1-based: the body part the     *)
(* source calls snake_body[i] is snake_body[i + 1] here.  Python integers  *)
(* are unbounded, so coordinates and num_moves are plain integers.         *)
(***************************************************************************)
EXTENDS Integers, Sequences, FiniteSets, TLC

VARIABLES
    snake_length,   \* Snake.snake_length
    snake_body,     \* Snake.snake_body: sequence of SnakeBodyPart records
    num_moves,      \* Snake.num_moves
    pc,             \* position of the driver: "idle", or inside move_combo
                    \* ("running"), or move_combo has returned ("completed")
                    \* or has propagated an exception ("raised")
    move_tuple,     \* move_combo's argument
    plot_moves,     \* move_combo's argument
    idx,            \* number of tokens of move_tuple the for loop has taken
    error,          \* exception propagated by move_combo, "none" if none
    plots,          \* what each plot_snake_position call of the current
                    \* move_combo read, in call order
    start,          \* snake state when the current move_combo was called
    history,        \* directions of the moves applied since construction
    conv_called,    \* convert_moves_to_string has been called and the call
                    \* below is its latest
    random_moves,   \* the list of integers given to convert_moves_to_string
    converted,      \* outcome of that call
    in_main         \* the current move_combo call is the one main makes

vars == <<snake_length, snake_body, num_moves, pc, move_tuple, plot_moves,
          idx, error, plots, start, history, conv_called, random_moves,
          converted, in_main>>

-----------------------------------------------------------------------------
(* Bounds of the model *)

MaxLen == 3        \* largest snake_length constructed
MaxMoves == 4      \* cap on num_moves for the freely chosen moves
MaxCombo == 2      \* longest freely chosen move_tuple
RunLen == 26       \* length of the all-"right" move_tuple

(* Program constants *)

GRID_SIZE == 50

Directions == {"right", "left", "up", "down"}

\* tokens a caller may put in move_tuple; "diagonal" stands for any string
\* that is none of the four recognised ones
Tokens == Directions \cup {"diagonal"}

-----------------------------------------------------------------------------
(* SnakeBodyPart and construction *)

SnakeBodyPart(ID, initial_pos, is_head) ==
    [ID |-> ID, xpos |-> initial_pos[1], ypos |-> initial_pos[2],
     is_head |-> is_head]

\* the for loop of __initialise_snake_body: i runs over range(1, snake_length)
RECURSIVE InitialiseLoop(_, _, _)
InitialiseLoop(body, i, n) ==
    IF i >= n THEN body
    ELSE InitialiseLoop(Append(body, SnakeBodyPart(i, <<0, -i>>, FALSE)),
                        i + 1, n)

\* a slip in the layout: body parts laid out upwards
initialise_snake_body_upwards(n) ==
    [i \in 1..(IF n > 1 THEN n ELSE 1) |->
        SnakeBodyPart(i - 1, <<0, i - 1>>, i = 1)]

\* a slip in the flag: every part built as a head
initialise_snake_body_all_heads(n) ==
    [i \in 1..(IF n > 1 THEN n ELSE 1) |->
        SnakeBodyPart(i - 1, <<0, -(i - 1)>>, TRUE)]

\* a slip: the head never appended
initialise_snake_body_no_head(n) == InitialiseLoop(<<>>, 1, n)

initialise_snake_body(n) ==
    InitialiseLoop(<<SnakeBodyPart(0, <<0, 0>>, TRUE)>>, 1, n)

-----------------------------------------------------------------------------
(* The shift and the four moves, as functions of the snake state            *)
(* s = [snake_body, num_moves]                                              *)

\* the for loop of update_body_positions: i runs over
\* range(len(snake_body) - 1, 0, -1), assigning in place
RECURSIVE ShiftLoop(_, _)
ShiftLoop(body, i) ==
    IF i <= 0 THEN body
    ELSE ShiftLoop([body EXCEPT ![i + 1].xpos = body[i].xpos,
                                ![i + 1].ypos = body[i].ypos], i - 1)

\* a slip: the loop run head-to-tail
RECURSIVE ShiftLoopAscending(_, _)
ShiftLoopAscending(body, i) ==
    IF i >= Len(body) THEN body
    ELSE ShiftLoopAscending([body EXCEPT ![i + 1].xpos = body[i].xpos,
                                         ![i + 1].ypos = body[i].ypos], i + 1)

update_body_positions_ascending(body) == ShiftLoopAscending(body, 1)

\* a slip: the whole part copied down the chain instead of its coordinates
RECURSIVE ShiftLoopCopyParts(_, _)
ShiftLoopCopyParts(body, i) ==
    IF i <= 0 THEN body
    ELSE ShiftLoopCopyParts([body EXCEPT ![i + 1] = body[i]], i - 1)

update_body_positions_copy_parts(body) ==
    ShiftLoopCopyParts(body, Len(body) - 1)

\* a slip: the loop stopping one index early, range(len - 1, 1, -1)
RECURSIVE ShiftLoopStopEarly(_, _)
ShiftLoopStopEarly(body, i) ==
    IF i <= 1 THEN body
    ELSE ShiftLoopStopEarly([body EXCEPT ![i + 1].xpos = body[i].xpos,
                                         ![i + 1].ypos = body[i].ypos], i - 1)

update_body_positions_stop_early(body) ==
    ShiftLoopStopEarly(body, Len(body) - 1)

update_body_positions(body) == ShiftLoop(body, Len(body) - 1)

\* a slip: the head moved along the wrong axis
move_right_wrong_axis(s) ==
    LET b == update_body_positions(s.snake_body)
    IN  [snake_body |-> [b EXCEPT ![1].ypos = @ + 1],
         num_moves |-> s.num_moves + 1]

\* a slip: the head moved before the shift, so the shift copies its new place
move_right_head_first(s) ==
    LET b == [s.snake_body EXCEPT ![1].xpos = @ + 1]
    IN  [snake_body |-> update_body_positions(b),
         num_moves |-> s.num_moves + 1]

move_right(s) ==
    LET b == update_body_positions(s.snake_body)
    IN  [snake_body |-> [b EXCEPT ![1].xpos = @ + 1],
         num_moves |-> s.num_moves + 1]

\* a slip: the head moved two units
move_left_two_units(s) ==
    LET b == update_body_positions(s.snake_body)
    IN  [snake_body |-> [b EXCEPT ![1].xpos = @ - 2],
         num_moves |-> s.num_moves + 1]

move_left(s) ==
    LET b == update_body_positions(s.snake_body)
    IN  [snake_body |-> [b EXCEPT ![1].xpos = @ - 1],
         num_moves |-> s.num_moves + 1]

\* a slip: the counter left alone
move_up_uncounted(s) ==
    LET b == update_body_positions(s.snake_body)
    IN  [snake_body |-> [b EXCEPT ![1].ypos = @ + 1],
         num_moves |-> s.num_moves]

\* a slip: the sign of the step
move_up_downwards(s) ==
    LET b == update_body_positions(s.snake_body)
    IN  [snake_body |-> [b EXCEPT ![1].ypos = @ - 1],
         num_moves |-> s.num_moves + 1]

move_up(s) ==
    LET b == update_body_positions(s.snake_body)
    IN  [snake_body |-> [b EXCEPT ![1].ypos = @ + 1],
         num_moves |-> s.num_moves + 1]

\* a slip: the shift forgotten
move_down_no_shift(s) ==
    [snake_body |-> [s.snake_body EXCEPT ![1].ypos = @ - 1],
     num_moves |-> s.num_moves + 1]

move_down(s) ==
    LET b == update_body_positions(s.snake_body)
    IN  [snake_body |-> [b EXCEPT ![1].ypos = @ - 1],
         num_moves |-> s.num_moves + 1]

\* the one statement of a move that can fail: self.snake_body[0] raises
\* IndexError on an empty list (after the shift, a no-op there, and after
\* num_moves += 1)
move_raises(s) == Len(s.snake_body) = 0

get_head(body) == body[1]

-----------------------------------------------------------------------------
(* plot_snake_position                                                      *)

\* numpy index i on an axis of size GRID_SIZE: negative indices wrap, an
\* index outside -GRID_SIZE .. GRID_SIZE-1 raises IndexError
IndexInBounds(i) == i >= -GRID_SIZE /\ i < GRID_SIZE

\* TRUE when some plot_grid[xpos_centred, ypos_centred] = ... assignment of
\* plot_snake_position raises IndexError
plot_snake_position_raises(body) ==
    \E k \in 1..Len(body) :
        \/ ~IndexInBounds(body[k].xpos + GRID_SIZE \div 2)
        \/ ~IndexInBounds(body[k].ypos + GRID_SIZE \div 2)

-----------------------------------------------------------------------------
(* move_combo                                                               *)

\* a slip: the else branch counting the token before it raises
perform_move_counting_invalid(s, move) ==
    IF move = "right" THEN [s |-> move_right(s), raised |-> FALSE]
    ELSE IF move = "left" THEN [s |-> move_left(s), raised |-> FALSE]
    ELSE IF move = "up" THEN [s |-> move_up(s), raised |-> FALSE]
    ELSE IF move = "down" THEN [s |-> move_down(s), raised |-> FALSE]
    ELSE [s |-> [s EXCEPT !.num_moves = @ + 1], raised |-> TRUE]

\* a slip: "right" and "left" dispatched to each other's method
perform_move_swapped(s, move) ==
    IF move = "right" THEN [s |-> move_left(s), raised |-> FALSE]
    ELSE IF move = "left" THEN [s |-> move_right(s), raised |-> FALSE]
    ELSE IF move = "up" THEN [s |-> move_up(s), raised |-> FALSE]
    ELSE IF move = "down" THEN [s |-> move_down(s), raised |-> FALSE]
    ELSE [s |-> s, raised |-> TRUE]

\* the if/elif chain of move_combo's loop body: the snake state after the
\* token, and whether the else branch raised
perform_move(s, move) ==
    IF move = "right" THEN [s |-> move_right(s), raised |-> FALSE]
    ELSE IF move = "left" THEN [s |-> move_left(s), raised |-> FALSE]
    ELSE IF move = "up" THEN [s |-> move_up(s), raised |-> FALSE]
    ELSE IF move = "down" THEN [s |-> move_down(s), raised |-> FALSE]
    ELSE [s |-> s, raised |-> TRUE]

Snake == [snake_body |-> snake_body, num_moves |-> num_moves]

\* sequences over S of length at most n
BoundedSeq(S, n) == UNION {[1..k -> S] : k \in 0..n}

\* the all-"right" move_tuple that walks the head off the plotting grid
RightRun == [k \in 1..RunLen |-> "right"]

MoveTuples == BoundedSeq(Tokens, MaxCombo) \cup {RightRun}

\* cap on the counters: freely chosen tuples keep num_moves within MaxMoves,
\* and RightRun is given to a snake that has not moved yet
Admissible(t) ==
    \/ num_moves + Len(t) <= MaxMoves
    \/ t = RightRun /\ num_moves = 0

-----------------------------------------------------------------------------
(* convert_moves_to_string and create_random_moves                          *)

\* integers a caller may put in the list: the four codes and one value on
\* either side of them
MoveCodes == -1..4

\* the for loop of convert_moves_to_string over enumerate(moves), i 0-based;
\* on the else branch the exception leaves no list behind, and at is the
\* index it was raised at
RECURSIVE ConvertLoop(_, _, _)
ConvertLoop(moves, str_move, i) ==
    IF i >= Len(moves)
    THEN [raised |-> FALSE, str_move |-> str_move, at |-> i]
    ELSE LET move == moves[i + 1]
         IN  IF move = 0
             THEN ConvertLoop(moves, [str_move EXCEPT ![i + 1] = "right"],
                              i + 1)
             ELSE IF move = 1
             THEN ConvertLoop(moves, [str_move EXCEPT ![i + 1] = "left"],
                              i + 1)
             ELSE IF move = 2
             THEN ConvertLoop(moves, [str_move EXCEPT ![i + 1] = "up"],
                              i + 1)
             ELSE IF move = 3
             THEN ConvertLoop(moves, [str_move EXCEPT ![i + 1] = "down"],
                              i + 1)
             ELSE [raised |-> TRUE, str_move |-> <<>>, at |-> i]

\* a slip: the names of codes 2 and 3 exchanged
convert_moves_to_string_up_down_swapped(moves) ==
    LET r == ConvertLoop(moves, [k \in 1..Len(moves) |-> 0], 0)
    IN  [r EXCEPT !.str_move =
            [k \in 1..Len(r.str_move) |->
                IF r.str_move[k] = "up" THEN "down"
                ELSE IF r.str_move[k] = "down" THEN "up"
                ELSE r.str_move[k]]]

\* str_move = [0] * len(moves), then the loop
convert_moves_to_string(moves) ==
    ConvertLoop(moves, [k \in 1..Len(moves) |-> 0], 0)

\* the lists [random.randint(0, 3) for _ in range(n_moves)] can be
create_random_moves(n_moves) == [1..n_moves -> 0..3]

\* no call of convert_moves_to_string on record
NotConverted == [raised |-> FALSE, str_move |-> <<>>, at |-> 0]

-----------------------------------------------------------------------------
(* Initial state: Snake(snake_length) has returned *)

Init ==
    /\ snake_length \in 0..MaxLen
    /\ snake_body = initialise_snake_body(snake_length)
    /\ num_moves = 0
    /\ pc = "idle"
    /\ move_tuple = <<>>
    /\ plot_moves = FALSE
    /\ idx = 0
    /\ error = "none"
    /\ plots = <<>>
    /\ start = [snake_body |-> snake_body, num_moves |-> num_moves]
    /\ history = <<>>
    /\ conv_called = FALSE
    /\ random_moves = <<>>
    /\ converted = NotConverted
    /\ in_main = FALSE

-----------------------------------------------------------------------------
(* Actions *)

\* the driver calls one of the four moves directly; move_combo's frame, if
\* one has ended, is gone
DirectMove(s, d) ==
    /\ pc # "running"
    /\ num_moves < MaxMoves
    /\ IF move_raises(Snake)
       THEN /\ snake_body' = snake_body
            /\ num_moves' = num_moves + 1
            /\ history' = history
            /\ pc' = "raised"
            /\ error' = "IndexError"
            /\ start' = Snake
       ELSE /\ snake_body' = s.snake_body
            /\ num_moves' = s.num_moves
            /\ history' = Append(history, d)
            /\ pc' = "idle"
            /\ error' = "none"
            /\ start' = s
    /\ move_tuple' = <<>>
    /\ plot_moves' = FALSE
    /\ idx' = 0
    /\ plots' = <<>>
    /\ conv_called' = FALSE
    /\ random_moves' = <<>>
    /\ converted' = NotConverted
    /\ in_main' = FALSE
    /\ UNCHANGED snake_length

MoveRight == DirectMove(move_right(Snake), "right")
MoveLeft == DirectMove(move_left(Snake), "left")
MoveUp == DirectMove(move_up(Snake), "up")
MoveDown == DirectMove(move_down(Snake), "down")

\* the driver calls move_combo(move_tuple, plot_moves)
MoveComboCall ==
    /\ pc # "running"
    /\ \E t \in MoveTuples, p \in BOOLEAN :
        /\ Admissible(t)
        /\ move_tuple' = t
        /\ plot_moves' = p
    /\ pc' = "running"
    /\ idx' = 0
    /\ error' = "none"
    /\ plots' = <<>>
    /\ start' = Snake
    /\ conv_called' = FALSE
    /\ random_moves' = <<>>
    /\ converted' = NotConverted
    /\ in_main' = FALSE
    /\ UNCHANGED <<snake_length, snake_body, num_moves, history>>

\* what one plot_snake_position call read and whether it got to savefig
PlotCall(s) ==
    [num_moves |-> s.num_moves, snake_body |-> s.snake_body,
     saved |-> ~plot_snake_position_raises(s.snake_body)]

\* a slip: the plot made before the move of the same iteration
MoveComboMovePlotFirst ==
    /\ pc = "running"
    /\ idx < Len(move_tuple)
    /\ LET move == move_tuple[idx + 1]
           r == perform_move(Snake, move)
       IN  /\ move \in Directions
           /\ ~r.raised
           /\ snake_body' = r.s.snake_body
           /\ num_moves' = r.s.num_moves
           /\ history' = Append(history, move)
           /\ idx' = idx + 1
           /\ pc' = pc
           /\ error' = error
           /\ plots' = IF plot_moves
                       THEN Append(plots, PlotCall(Snake))
                       ELSE plots
    /\ UNCHANGED <<snake_length, move_tuple, plot_moves, start, conv_called,
                   random_moves, converted, in_main>>

\* one iteration of the loop on a recognised token: the move, then the plot
MoveComboMove ==
    /\ pc = "running"
    /\ idx < Len(move_tuple)
    /\ LET move == move_tuple[idx + 1]
           r == perform_move(Snake, move)
       IN  /\ move \in Directions
           /\ idx' = idx + 1
           /\ IF move_raises(Snake)
              THEN /\ snake_body' = snake_body
                   /\ num_moves' = num_moves + 1
                   /\ history' = history
                   /\ pc' = "raised"
                   /\ error' = "IndexError"
                   /\ plots' = plots
              ELSE /\ ~r.raised
                   /\ snake_body' = r.s.snake_body
                   /\ num_moves' = r.s.num_moves
                   /\ history' = Append(history, move)
                   /\ plots' = IF plot_moves
                               THEN Append(plots, PlotCall(r.s))
                               ELSE plots
                   /\ IF plot_moves
                         /\ plot_snake_position_raises(r.s.snake_body)
                      THEN pc' = "raised" /\ error' = "IndexError"
                      ELSE pc' = pc /\ error' = error
    /\ UNCHANGED <<snake_length, move_tuple, plot_moves, start, conv_called,
                   random_moves, converted, in_main>>

\* one iteration of the loop on an unrecognised token: the else branch
MoveComboInvalid ==
    /\ pc = "running"
    /\ idx < Len(move_tuple)
    /\ LET move == move_tuple[idx + 1]
           r == perform_move(Snake, move)
       IN  /\ r.raised
           /\ snake_body' = r.s.snake_body
           /\ num_moves' = r.s.num_moves
    /\ pc' = "raised"
    /\ error' = "InvalidMove"
    /\ idx' = idx + 1
    /\ UNCHANGED <<snake_length, move_tuple, plot_moves, plots, start,
                   history, conv_called, random_moves, converted, in_main>>

\* the loop is exhausted: move_combo returns
MoveComboReturn ==
    /\ pc = "running"
    /\ idx = Len(move_tuple)
    /\ pc' = "completed"
    /\ UNCHANGED <<snake_length, snake_body, num_moves, move_tuple,
                   plot_moves, idx, error, plots, start, history,
                   conv_called, random_moves, converted, in_main>>

\* the driver calls convert_moves_to_string(moves) on a list of integers;
\* the function reads no snake state, so the call is modelled next to a
\* snake that has not moved, where main makes it
ConvertMovesCall ==
    /\ pc = "idle"
    /\ history = <<>>
    /\ \E m \in BoundedSeq(MoveCodes, MaxCombo) :
        /\ random_moves' = m
        /\ converted' = convert_moves_to_string(m)
    /\ conv_called' = TRUE
    /\ in_main' = FALSE
    /\ UNCHANGED <<snake_length, snake_body, num_moves, pc, move_tuple,
                   plot_moves, idx, error, plots, start, history>>

\* main() on its freshly built snake: create_random_moves, then
\* convert_moves_to_string, then the call move_combo(..., plot_moves=True);
\* the model's snake_length and n_moves range over 0..MaxLen and
\* 0..MaxCombo where main has 10 and 500
Main ==
    /\ pc = "idle"
    /\ history = <<>>
    /\ \E n_moves \in 0..MaxCombo :
        \E m \in create_random_moves(n_moves) :
            LET r == convert_moves_to_string(m)
            IN  /\ random_moves' = m
                /\ converted' = r
                /\ IF r.raised
                   THEN /\ pc' = "raised"
                        /\ error' = "InvalidMove"
                        /\ move_tuple' = <<>>
                        /\ plot_moves' = FALSE
                   ELSE /\ pc' = "running"
                        /\ error' = "none"
                        /\ move_tuple' = r.str_move
                        /\ plot_moves' = TRUE
    /\ conv_called' = TRUE
    /\ in_main' = TRUE
    /\ idx' = 0
    /\ plots' = <<>>
    /\ start' = Snake
    /\ UNCHANGED <<snake_length, snake_body, num_moves, history>>

Next ==
    \/ MoveRight
    \/ MoveLeft
    \/ MoveUp
    \/ MoveDown
    \/ MoveComboCall
    \/ MoveComboMove
    \/ MoveComboInvalid
    \/ MoveComboReturn
    \/ ConvertMovesCall
    \/ Main

Spec == Init /\ [][Next]_vars

-----------------------------------------------------------------------------
(* Vocabulary of the properties *)

Pos(p) == <<p.xpos, p.ypos>>

\* the step applies a move in direction d (directly or inside move_combo)
IsMove(d) == history' = Append(history, d)

AnyMove == \E d \in Directions : IsMove(d)

Delta(d) ==
    CASE d = "right" -> <<1, 0>>
      [] d = "left" -> <<-1, 0>>
      [] d = "up" -> <<0, 1>>
      [] d = "down" -> <<0, -1>>

Plus(p, v) == <<p[1] + v[1], p[2] + v[2]>>

Abs(n) == IF n < 0 THEN -n ELSE n

\* q differs from p by a unit vector
UnitApart(p, q) == Abs(q[1] - p[1]) + Abs(q[2] - p[2]) = 1

\* the state Snake(n) returns
Fresh(n) == [snake_body |-> initialise_snake_body(n), num_moves |-> 0]

\* one move at a time: the method named by each direction, in order
RECURSIVE ApplyMoves(_, _)
ApplyMoves(s, t) ==
    IF t = <<>> THEN s
    ELSE LET d == Head(t)
             s1 == CASE d = "right" -> move_right(s)
                     [] d = "left" -> move_left(s)
                     [] d = "up" -> move_up(s)
                     [] d = "down" -> move_down(s)
         IN  ApplyMoves(s1, Tail(t))

\* index of the first token of t that is not a direction, Len(t) + 1 if none
FirstInvalid(t) ==
    LET bad == {k \in 1..Len(t) : t[k] \notin Directions}
    IN  IF bad = {} THEN Len(t) + 1
        ELSE CHOOSE k \in bad : \A j \in bad : k <= j

\* the segment positions of the snake, head first
Layout == [k \in 1..Len(snake_body) |-> Pos(snake_body[k])]

-----------------------------------------------------------------------------
(* C1 - Trailing property: on every move of a chain of length n >= 2, for   *)
(* every index i in 1..n-1 the position of snake_body[i] after the move is  *)
(* the position of snake_body[i-1] before the move.                         *)
C1_Trailing ==
    [][AnyMove =>
         \A i \in 1..(Len(snake_body) - 1) :
             Pos(snake_body'[i + 1]) = Pos(snake_body[i])]_vars

\* a chain of three segments that has turned a corner
C1_Witness ==
    /\ Len(snake_body) >= 3
    /\ Len(history) >= 2
    /\ history[Len(history)] # history[Len(history) - 1]

(* C2 - Head translation: move_right takes the head from (x, y) to          *)
(* (x+1, y), move_left to (x-1, y), move_up to (x, y+1), move_down to       *)
(* (x, y-1).                                                                *)
C2_HeadTranslation ==
    [][/\ IsMove("right") =>
            Pos(snake_body'[1]) =
                <<snake_body[1].xpos + 1, snake_body[1].ypos>>
       /\ IsMove("left") =>
            Pos(snake_body'[1]) =
                <<snake_body[1].xpos - 1, snake_body[1].ypos>>
       /\ IsMove("up") =>
            Pos(snake_body'[1]) =
                <<snake_body[1].xpos, snake_body[1].ypos + 1>>
       /\ IsMove("down") =>
            Pos(snake_body'[1]) =
                <<snake_body[1].xpos, snake_body[1].ypos - 1>>]_vars

\* each of the four moves has been applied
C2_Witness == {history[k] : k \in 1..Len(history)} = Directions

(* C3 - Invalid token leaves state untouched: the loop iteration of         *)
(* move_combo that meets a token outside the four directions raises and     *)
(* changes no segment and not num_moves; on a fresh chain the initial       *)
(* layout and num_moves = 0 remain.                                         *)
C3_InvalidTokenUntouched ==
    /\ [][(/\ pc = "running"
           /\ idx < Len(move_tuple)
           /\ move_tuple[idx + 1] \notin Directions)
          => /\ pc' = "raised"
             /\ error' = "InvalidMove"
             /\ snake_body' = snake_body
             /\ num_moves' = num_moves]_vars
    /\ []((/\ error = "InvalidMove"
           /\ idx = 1
           /\ start = Fresh(snake_length))
          => Snake = Fresh(snake_length))

\* an invalid token met after an applied token, on a chain that had moved
C3_Witness ==
    /\ pc = "raised"
    /\ error = "InvalidMove"
    /\ idx = 2
    /\ start.num_moves > 0
    /\ num_moves > start.num_moves

(* C4 - Abort at the first invalid token: when move_combo ends, the state   *)
(* is the state at the call with exactly the tokens before the first        *)
(* invalid token applied one move at a time; the whole sequence if no       *)
(* token is invalid.                                                        *)
C4_AbortAtFirstInvalid ==
    pc \in {"completed", "raised"} =>
        Snake = ApplyMoves(start,
                    SubSeq(move_tuple, 1, FirstInvalid(move_tuple) - 1))

(* C5 - Move counter: num_moves is 0 after construction, grows by exactly   *)
(* 1 on every applied move whatever its direction, equals the number of     *)
(* moves applied so far, and never decreases.                               *)
C5_MoveCounter ==
    /\ num_moves = 0
    /\ [][/\ AnyMove => num_moves' = num_moves + 1
          /\ num_moves' >= num_moves
          /\ num_moves' = Len(history')]_vars

\* the counter after moves in all four directions
C5_Witness ==
    /\ num_moves = MaxMoves
    /\ Cardinality({history[k] : k \in 1..Len(history)}) = 4

(* C6 - Initial layout: Snake(n) with n >= 1 gives num_moves = 0, the head  *)
(* at (0, 0) and snake_body[i] at (0, -i) for every i in 1..n-1.            *)
C6_InitialLayout ==
    (history = <<>> /\ snake_length >= 1) =>
        /\ num_moves = 0
        /\ Len(snake_body) = snake_length
        /\ Pos(snake_body[1]) = <<0, 0>>
        /\ \A i \in 1..(snake_length - 1) : Pos(snake_body[i + 1]) = <<0, -i>>

\* a freshly built chain of at least three segments
C6_Witness ==
    /\ snake_length >= 3
    /\ history = <<>>
    /\ pc = "idle"

\* the last two applied moves are right then left, or up then down
PairJustApplied ==
    /\ Len(history) >= 2
    /\ <<history[Len(history) - 1], history[Len(history)]>>
           \in {<<"right", "left">>, <<"up", "down">>}

\* the state before the last two applied moves
BeforePair ==
    ApplyMoves(Fresh(snake_length), SubSeq(history, 1, Len(history) - 2))

(* C7 as stated - right then left, or up then down, restores the exact      *)
(* state before the pair.                                                   *)
C7_PairRestoresState == PairJustApplied => Snake = BeforePair

(* C7 amended - right then left, or up then down, restores the position of  *)
(* the head only: num_moves is 2 larger, snake_body[1] is at the position   *)
(* the head had between the two moves, and every snake_body[i] with i >= 2  *)
(* is at the position snake_body[i-2] had before the pair.                  *)
C7_PairRestoresHead ==
    PairJustApplied =>
        LET pre == BeforePair
            d == history[Len(history) - 1]
        IN  /\ Pos(snake_body[1]) = Pos(pre.snake_body[1])
            /\ num_moves = pre.num_moves + 2
            /\ Len(snake_body) = Len(pre.snake_body)
            /\ Len(snake_body) >= 2 =>
                   Pos(snake_body[2]) = Plus(Pos(pre.snake_body[1]), Delta(d))
            /\ \A i \in 2..(Len(snake_body) - 1) :
                   Pos(snake_body[i + 1]) = Pos(pre.snake_body[i - 1])

\* an up-down pair applied to a chain of three segments that has moved
C7_Witness ==
    /\ PairJustApplied
    /\ history[Len(history)] = "down"
    /\ Len(history) >= 3
    /\ Len(snake_body) >= 3

\* the segments whose coordinates the step changes by a unit vector
ChangedByUnit ==
    {k \in 1..Len(snake_body) :
        UnitApart(Pos(snake_body[k]), Pos(snake_body'[k]))}

(* C8 as stated - on every move exactly one segment's coordinates change    *)
(* by a unit vector, the head; every other segment's coordinates change to  *)
(* its predecessor's prior value.                                           *)
C8_ExactlyOneUnitChange ==
    [][AnyMove =>
         /\ ChangedByUnit = {1}
         /\ \A i \in 1..(Len(snake_body) - 1) :
                Pos(snake_body'[i + 1]) = Pos(snake_body[i])]_vars

(* C8 amended - on every move the head's coordinates change by the unit     *)
(* vector of the move's direction and every other segment's coordinates     *)
(* change to its predecessor's prior value; the head is the only segment    *)
(* changed by a unit vector exactly when the chain has a single segment.    *)
C8_HeadDisplacement ==
    [][\A d \in Directions : IsMove(d) =>
         /\ Pos(snake_body'[1]) = Plus(Pos(snake_body[1]), Delta(d))
         /\ 1 \in ChangedByUnit
         /\ \A i \in 1..(Len(snake_body) - 1) :
                Pos(snake_body'[i + 1]) = Pos(snake_body[i])
         /\ (ChangedByUnit = {1}) <=> (Len(snake_body) = 1)]_vars

\* a left move applied to a chain of at least two segments
C8_Witness ==
    /\ Len(snake_body) >= 2
    /\ history # <<>>
    /\ history[Len(history)] = "left"

\* move_combo called on a fresh chain of length 3 has taken exactly tokens t
ScenarioAfter(t) ==
    /\ snake_length = 3
    /\ pc \in {"running", "completed"}
    /\ start = Fresh(3)
    /\ SubSeq(move_tuple, 1, idx) = t

(* C9 - Scenario for a chain of length 3: from [(0,0), (0,-1), (0,-2)]      *)
(* with num_moves = 0, right gives [(1,0), (0,0), (0,-1)] with              *)
(* num_moves = 1, and then up gives [(1,1), (1,0), (0,0)] with              *)
(* num_moves = 2.                                                           *)
C9_Scenario ==
    /\ ScenarioAfter(<<>>) =>
           Layout = <<(<<0, 0>>), (<<0, -1>>), (<<0, -2>>)>> /\ num_moves = 0
    /\ ScenarioAfter(<<"right">>) =>
           Layout = <<(<<1, 0>>), (<<0, 0>>), (<<0, -1>>)>> /\ num_moves = 1
    /\ ScenarioAfter(<<"right", "up">>) =>
           Layout = <<(<<1, 1>>), (<<1, 0>>), (<<0, 0>>)>> /\ num_moves = 2

\* move_combo(("right", "up")) has returned on a fresh chain of length 3
C9_Witness ==
    /\ ScenarioAfter(<<"right", "up">>)
    /\ pc = "completed"
    /\ move_tuple = <<"right", "up">>

(* C10 - Unique head: in every reachable state of a chain built with        *)
(* length >= 1 exactly one segment has is_head true, it is snake_body[0],   *)
(* and get_head returns it.                                                 *)
C10_UniqueHead ==
    snake_length >= 1 =>
        /\ {k \in 1..Len(snake_body) : snake_body[k].is_head} = {1}
        /\ get_head(snake_body).is_head
        /\ get_head(snake_body) = snake_body[1]
        /\ get_head(snake_body).ID = 0

\* a chain of three segments after moves
C10_Witness ==
    /\ snake_length >= 3
    /\ Len(snake_body) >= 3
    /\ num_moves >= 2
    /\ pc = "idle"

(* C11 - Fixed structure: no move and no move_combo step changes            *)
(* snake_length, the number of segments, their order, or any segment's ID   *)
(* or is_head flag; a chain built with length n >= 1 has n segments and     *)
(* the segment at index i has ID i in every reachable state.                *)
C11_FixedStructure ==
    /\ [](snake_length >= 1 =>
            /\ Len(snake_body) = snake_length
            /\ \A i \in 0..(snake_length - 1) : snake_body[i + 1].ID = i)
    /\ [][/\ snake_length' = snake_length
          /\ Len(snake_body') = Len(snake_body)
          /\ \A k \in 1..Len(snake_body) :
                /\ snake_body'[k].ID = snake_body[k].ID
                /\ snake_body'[k].is_head = snake_body[k].is_head]_vars

\* a chain of three segments after a move_combo that applied two moves
C11_Witness ==
    /\ snake_length >= 3
    /\ pc = "completed"
    /\ num_moves >= start.num_moves + 2

\* two segments on the same position
Overlapping ==
    \E j, k \in 1..Len(snake_body) :
        j # k /\ Pos(snake_body[j]) = Pos(snake_body[k])

(* C12 - Totality of the four moves: in every reachable state of a chain    *)
(* of length >= 1 each of move_right, move_left, move_up and move_down can  *)
(* be called and completes without error, whatever the positions of the     *)
(* segments (overlapping or far from the origin), giving a chain of the     *)
(* same length with num_moves one larger.                                   *)
C12_MovesTotal ==
    snake_length >= 1 =>
        /\ ~move_raises(Snake)
        /\ \A s \in {move_right(Snake), move_left(Snake),
                     move_up(Snake), move_down(Snake)} :
               /\ ~move_raises(s)
               /\ Len(s.snake_body) = Len(snake_body)
               /\ s.num_moves = num_moves + 1
        /\ (pc # "running" /\ num_moves < MaxMoves) =>
               /\ ENABLED MoveRight
               /\ ENABLED MoveLeft
               /\ ENABLED MoveUp
               /\ ENABLED MoveDown
        /\ (pc = "raised" /\ error = "IndexError") =>
               plots # <<>> /\ ~plots[Len(plots)].saved

\* a direct move has just completed on a chain with overlapping segments
C12_Witness ==
    /\ snake_length >= 3
    /\ pc = "idle"
    /\ history # <<>>
    /\ Overlapping

(* C13 - No error other than the invalid-token error: move_combo given      *)
(* only valid tokens takes the whole sequence and returns without raising,  *)
(* also with plot_moves true and segments outside the plotting grid.        *)
C13_ValidTokensNeverRaise ==
    (/\ pc \in {"completed", "raised"}
     /\ \A k \in 1..Len(move_tuple) : move_tuple[k] \in Directions)
    => /\ pc = "completed"
       /\ error = "none"
       /\ idx = Len(move_tuple)

\* the shift as one simultaneous assignment: new[i] = old[i-1] for i >= 1
SimultaneousShift(body) ==
    [k \in 1..Len(body) |->
        IF k = 1 THEN body[1]
        ELSE [body[k] EXCEPT !.xpos = body[k - 1].xpos,
                             !.ypos = body[k - 1].ypos]]

(* C14 - Shift step: update_body_positions, copying one index at a time     *)
(* from the last index down to 1, gives the result of the simultaneous      *)
(* assignment new[i] = old[i-1]; it leaves the head where it is and is a    *)
(* no-op on a chain with a single segment.                                  *)
C14_ShiftIsSimultaneous ==
    LET after == update_body_positions(snake_body)
    IN  /\ after = SimultaneousShift(snake_body)
        /\ after[1] = snake_body[1]
        /\ Len(snake_body) = 1 => after = snake_body

\* a chain of three segments bent round a corner by earlier shifts
C14_Witness ==
    /\ Len(snake_body) >= 3
    /\ num_moves >= 2
    /\ snake_body[1].xpos # snake_body[3].xpos
    /\ snake_body[1].ypos # snake_body[3].ypos

\* number of tokens of the current move_combo that were applied as moves
AppliedTokens == IF error = "InvalidMove" THEN idx - 1 ELSE idx

\* inside or after a move_combo call with plot_moves true
Plotting == pc \in {"running", "completed", "raised"} /\ plot_moves

\* a step of a plotting move_combo that applies a move makes one more call,
\* which reads the state the step ends in; no other step inside the
\* move_combo makes a call
OneCallPerMove ==
    (pc = "running" /\ plot_moves) =>
        IF AnyMove
        THEN /\ Len(plots') = Len(plots) + 1
             /\ SubSeq(plots', 1, Len(plots)) = plots
             /\ plots'[Len(plots')].snake_body = snake_body'
             /\ plots'[Len(plots')].num_moves = num_moves'
        ELSE plots' = plots

(* C15 as stated - with plot_moves true plot_snake_position is called       *)
(* exactly once after each applied move and before the next token, never    *)
(* for an invalid token; each call sees the complete post-move state, and   *)
(* the k-th call sees num_moves = k.                                        *)
C15_KthCallSeesK ==
    /\ [](Plotting =>
            /\ Len(plots) = AppliedTokens
            /\ \A k \in 1..Len(plots) : plots[k].num_moves = k)
    /\ [][OneCallPerMove]_vars

(* C15 amended - with plot_moves true plot_snake_position is called         *)
(* exactly once after each applied move and before the next token, never    *)
(* for an invalid token; each call sees the complete post-move state, and   *)
(* the k-th call sees num_moves = m + k, where m is num_moves at the call   *)
(* of move_combo (so k on a chain that had not moved); without plot_moves   *)
(* no call is made.                                                         *)
C15_RenderOrdering ==
    /\ [](Plotting =>
            /\ Len(plots) = AppliedTokens
            /\ \A k \in 1..Len(plots) :
                   plots[k].num_moves = start.num_moves + k)
    /\ [](~plot_moves => plots = <<>>)
    /\ [][OneCallPerMove]_vars

\* a plotting move_combo of two moves has returned on a chain that had moved
C15_Witness ==
    /\ Plotting
    /\ pc = "completed"
    /\ Len(plots) = 2
    /\ start.num_moves > 0

(* C16 - Chain connectivity: in every state reached from the initial        *)
(* layout by valid moves, adjacent segments snake_body[i-1], snake_body[i]  *)
(* are at Manhattan distance exactly 1.                                     *)
C16_Connected ==
    \A i \in 1..(Len(snake_body) - 1) :
        UnitApart(Pos(snake_body[i]), Pos(snake_body[i + 1]))

\* a move_combo has folded a chain of three segments back onto itself
C16_Witness ==
    /\ Len(snake_body) >= 3
    /\ pc = "completed"
    /\ Overlapping

\* net displacement of the moves in h: (#right - #left, #up - #down)
Count(h, d) == Cardinality({k \in 1..Len(h) : h[k] = d})

NetDisplacement(h) ==
    <<Count(h, "right") - Count(h, "left"), Count(h, "up") - Count(h, "down")>>

(* C17 - Body replays the head's path: after k valid moves on a chain of    *)
(* length n, for every i in 1..n-1, snake_body[i] is where the head was     *)
(* after k-i moves if k >= i, and at (0, -(i-k)) if k < i.                  *)
C17_BodyReplaysHead ==
    LET k == Len(history)
    IN  \A i \in 1..(Len(snake_body) - 1) :
            Pos(snake_body[i + 1]) =
                IF k >= i THEN NetDisplacement(SubSeq(history, 1, k - i))
                ELSE <<0, -(i - k)>>

\* one sideways move on three segments: snake_body[1] is on the head's
\* path, snake_body[2] still on the initial line
C17_Witness ==
    /\ Len(snake_body) >= 3
    /\ Len(history) = 1
    /\ history[1] \in {"left", "right"}

(* C18 - Head position is the net displacement: after any sequence of       *)
(* valid moves from construction the head is at (#right - #left,            *)
(* #up - #down), whatever the order of the moves and the chain's length.    *)
C18_HeadNetDisplacement ==
    Pos(snake_body[1]) = NetDisplacement(history)

\* all four directions applied, with moves cancelling each other
C18_Witness ==
    /\ Len(history) >= 4
    /\ \A d \in Directions : Count(history, d) >= 1
    /\ Pos(snake_body[1]) = <<0, 0>>

\* the name of a move code
CodeName(c) ==
    CASE c = 0 -> "right"
      [] c = 1 -> "left"
      [] c = 2 -> "up"
      [] c = 3 -> "down"

\* the positions of random_moves holding no move code
BadCodes == {k \in 1..Len(random_moves) : random_moves[k] \notin 0..3}

(* C19 - Move-code translation: convert_moves_to_string returns a list of   *)
(* the length and order of its input with 0, 1, 2, 3 turned into "right",   *)
(* "left", "up", "down", and raises at the first element outside 0..3;      *)
(* create_random_moves yields only 0..3, so the tokens main gives           *)
(* move_combo are all valid and the run raises no invalid-move error.       *)
C19_MoveCodeTranslation ==
    /\ conv_called =>
        IF BadCodes = {}
        THEN /\ ~converted.raised
             /\ Len(converted.str_move) = Len(random_moves)
             /\ \A k \in 1..Len(random_moves) :
                    converted.str_move[k] = CodeName(random_moves[k])
        ELSE /\ converted.raised
             /\ converted.at + 1 \in BadCodes
             /\ \A k \in BadCodes : converted.at + 1 <= k
    /\ in_main =>
        /\ BadCodes = {}
        /\ move_tuple = converted.str_move
        /\ \A k \in 1..Len(move_tuple) : move_tuple[k] \in Directions
        /\ error # "InvalidMove"

\* main's move_combo has returned after an up move and a down move
C19_Witness ==
    /\ in_main
    /\ pc = "completed"
    /\ {move_tuple[k] : k \in 1..Len(move_tuple)} = {"up", "down"}

====
